---- MODULE Spec2Model ----
(***************************************************************************)
(* The AMQP data decoder of pika (src/pika/codec/decode.py, Python 2).     *)
(*                                                                         *)
(* A buffer (a Python 2 str) is a sequence of bytes 0..255.  Every decoder *)
(* is a pure function of its buffer; it is an operator here, returning     *)
(*   [ok |-> TRUE,  consumed, value, g]   for  return consumed, value      *)
(*   [ok |-> FALSE, err, msg, at, g]      for a raised exception           *)
(* The fields g (and at) are history information that the Python values do *)
(* not carry: they record what the decode loops did (iterations, offsets,  *)
(* nesting depth), so that properties of the loops can be stated.          *)
(*                                                                         *)
(* The state machine is a caller handing one call to the module: the       *)
(* variable call is the pending call, result is what the call returned.    *)
(***************************************************************************)
EXTENDS Integers, Sequences, FiniteSets

VARIABLES call, result

vars == <<call, result>>

---------------------------------------------------------------------------
(* Bounds of the inputs.                                                       *)

\* longest buffer over Bytes handed to every decoder
MaxLen == 3
\* longest body following a 4-byte region length
MaxBody == 3
\* longest body of a compound value nested in another one
MaxInner == 3
\* longest run of fill bytes after a leading byte
MaxTail == 9
\* most key/value entries (or elements) in a well-formed compound value
MaxEntries == 2
\* longest text body that holds a non-ASCII byte
MaxText == 2
\* the null-appending passes of field_array over an exhausted buffer are
\* unrolled one by one up to this many, and summed in closed form beyond
MaxUnroll == 4

---------------------------------------------------------------------------
(* Bytes and Python slices.                                                *)

TagA == 65
TagD == 68
TagF == 70
TagI == 73
TagL == 76
TagS == 83
TagT == 84
TagU == 85
Tag_f == 102
Tag_s == 115
Tag_t == 116
TagNUL == 0

Min(a, b) == IF a < b THEN a ELSE b
Max(a, b) == IF a < b THEN b ELSE a

\* value[a:b] of Python, 0-based and clipped to the buffer
Slice(value, a, b) == SubSeq(value, a + 1, Min(b, Len(value)))
\* value[a:]
From(value, a) == SubSeq(value, a + 1, Len(value))

---------------------------------------------------------------------------
(* Results and values.                                                     *)

\* History of a decode call:
\*   compound  the call was field_array or field_table
\*   iters     passes of the call's own while loop
\*   depth     deepest chain of compound decoders entered through _embedded_value
\*   read      how many bytes of its buffer the call looked at
\*   overrun   a pass (here or nested) ended beyond its region's end
\*   reread    a pass (here or nested) started before the bytes already looked at
\*   phantom   a pass (here or nested) took its value from an empty slice
\*   steps     the passes of the call's own loop, in order
NoGhost == [compound |-> FALSE, iters |-> 0, depth |-> 0, read |-> 0, overrun |-> FALSE,
            reread |-> FALSE, phantom |-> FALSE, steps |-> <<>>]

Ok(consumed, value) == [ok |-> TRUE, consumed |-> consumed, value |-> value, g |-> NoGhost]
Raise(err, msg) == [ok |-> FALSE, err |-> err, msg |-> msg, at |-> 0, g |-> NoGhost]

None == [type |-> "null"]
Bool(b) == [type |-> "bool", v |-> b]
IntVal(n) == [type |-> "int", v |-> n]

\* struct.unpack of 'B', '>H', '>I': big-endian unsigned
U8(b) == b[1]
U16(b) == b[1] * 256 + b[2]
U32(b) == ((b[1] * 256 + b[2]) * 256 + b[3]) * 256 + b[4]
\* struct.unpack of '>l': big-endian two's complement
S32(b) == IF b[1] < 128 THEN U32(b)
          ELSE -U32(<<255 - b[1], 255 - b[2], 255 - b[3], 255 - b[4]>>) - 1
\* struct.unpack of '>Q' and '>q': the 64-bit number as four 16-bit words,
\* most significant first (the first one signed for '>q')
U64(b) == <<U16(SubSeq(b, 1, 2)), U16(SubSeq(b, 3, 4)), U16(SubSeq(b, 5, 6)), U16(SubSeq(b, 7, 8))>>
S64(b) == <<IF b[1] < 128 THEN U16(SubSeq(b, 1, 2)) ELSE U16(SubSeq(b, 1, 2)) - 65536,
            U16(SubSeq(b, 3, 4)), U16(SubSeq(b, 5, 6)), U16(SubSeq(b, 7, 8))>>

StructError == Raise("struct.error", <<"unpack requires a string argument">>)
IndexError == Raise("IndexError", <<"string index out of range">>)

\* unicode(s): Python 2 decodes with the ascii codec, which rejects bytes >= 128
unicode(s) == IF \E i \in 1..Len(s) : s[i] >= 128
              THEN Raise("UnicodeDecodeError", <<"ascii", s>>)
              ELSE Ok(0, [type |-> "unicode", chars |-> s])

\* words a above words b, both most significant word first
RECURSIVE WordsAbove(_, _)
WordsAbove(a, b) ==
    /\ Len(a) > 0
    /\ \/ a[1] > b[1]
       \/ a[1] = b[1] /\ WordsAbove(Tail(a), Tail(b))

\* time.gmtime(secs) of CPython 2 on 64-bit glibc: the last second of the
\* year 2147485547 (0x00F0C2AB7C54A97F) is the last one with a calendar
\* date, beyond it gmtime raises ValueError
GmtimeMax == <<240, 49835, 31828, 43391>>
gmtime(words) == IF WordsAbove(words, GmtimeMax)
                 THEN Raise("ValueError", <<"timestamp out of range">>)
                 ELSE Ok(0, [type |-> "struct_time", secs |-> words])

---------------------------------------------------------------------------
(* Base data type decoders.                                                *)

bit(value, position) ==
    IF Len(value) = 0 THEN IndexError
    ELSE Ok(0, Bool((U8(value) \div (2 ^ position)) % 2 # 0))

boolean(value) ==
    IF Len(value) = 0 THEN IndexError
    ELSE Ok(1, Bool(U8(value) # 0))

decimal(value) ==
    IF Len(value) = 0 THEN IndexError
    ELSE IF Len(Slice(value, 1, 5)) # 4 THEN StructError
    ELSE Ok(5, [type |-> "Decimal", mantissa |-> U32(Slice(value, 1, 5)), scale |-> U8(value)])

floating_point(value) ==
    IF Len(value) < 4 THEN StructError
    ELSE Ok(4, [type |-> "float", sign |-> value[1] \div 128,
                exponent |-> (value[1] % 128) * 2 + value[2] \div 128,
                fraction |-> ((value[2] % 128) * 256 + value[3]) * 256 + value[4]])

long_int(value) ==
    IF Len(Slice(value, 0, 4)) # 4 THEN StructError
    ELSE Ok(4, IntVal(S32(Slice(value, 0, 4))))

long_long_int(value) ==
    IF Len(Slice(value, 0, 8)) # 8 THEN StructError
    ELSE Ok(8, [type |-> "long", words |-> S64(Slice(value, 0, 8))])

\* return length + width, unicode(...): the text as sliced, whatever its length
Text(length, width, text) ==
    IF ~text.ok THEN text ELSE Ok(length + width, text.value)

long_string(value) ==
    IF Len(Slice(value, 0, 4)) # 4 THEN StructError
    ELSE LET length == U32(Slice(value, 0, 4))
         IN  Text(length, 4, unicode(Slice(value, 4, length + 4)))

octet(value) ==
    IF Len(value) = 0 THEN IndexError
    ELSE Ok(1, IntVal(U8(value)))

short_int(value) ==
    IF Len(Slice(value, 0, 2)) < 2 THEN StructError
    ELSE Ok(2, IntVal(U16(Slice(value, 0, 2))))

short_string(value) ==
    IF Len(value) = 0 THEN IndexError
    ELSE LET length == U8(value)
         IN  Text(length, 1, unicode(Slice(value, 1, length + 1)))

timestamp(value) ==
    IF Len(Slice(value, 0, 8)) # 8 THEN StructError
    ELSE LET t == gmtime(U64(Slice(value, 0, 8)))
         IN  IF ~t.ok THEN t ELSE Ok(8, t.value)

---------------------------------------------------------------------------
(* Compound data types.                                                    *)

RECURSIVE field_array(_), field_table(_), embedded_value(_)
RECURSIVE array_loop(_, _, _, _, _), table_loop(_, _, _, _, _)

\* the loop bound off by one: a pass is still made at the region's end
LoopCond_Inclusive(offset, end) == offset <= end

\* while offset < field_array_end
LoopCond(offset, end) == offset < end

\* offset += consumed + 1
Advance(offset, consumed) == offset + consumed + 1

\* return offset, data
ArrayReturn(offset, end) == offset

\* return field_table_end, data
TableReturn(offset, end) == end

\* an insert that keeps the value a key already has
DictSet_KeepFirst(data, key, v) ==
    [k \in DOMAIN data \cup {key} |-> IF k \in DOMAIN data THEN data[k] ELSE v]

\* data[key] = result
DictSet(data, key, v) == [k \in DOMAIN data \cup {key} |-> IF k = key THEN v ELSE data[k]]

\* the null counted as one consumed byte
NullResult_CountsTag == Ok(1, None)

\* return 0, None
NullResult == Ok(0, None)

\* a Python list: items followed by nulls times None
RECURSIVE TrailingNone(_)
TrailingNone(items) ==
    IF Len(items) = 0 \/ items[Len(items)] # None THEN 0
    ELSE 1 + TrailingNone(SubSeq(items, 1, Len(items) - 1))
List(items, nulls) ==
    LET k == TrailingNone(items)
    IN  [type |-> "list", items |-> SubSeq(items, 1, Len(items) - k), nulls |-> nulls + k]
Dict(data) == [type |-> "dict", map |-> data]

\* an exception leaving a callee that was given value[k:]
Shift(r, k) == IF r.ok THEN r ELSE [r EXCEPT !.at = @ + k]

\* the bytes of its buffer (of avail bytes) that a decode looked at
Extent(r, avail) == IF r.g.compound THEN r.g.read ELSE Min(r.consumed, avail)

\* the history after one pass of a loop: the pass began at offset, found
\* its tagged value at tagAt and left the offset at next
Pass(g, value, offset, tagAt, key, r, next, end) ==
    LET slice == From(value, tagAt)
        looked == IF Len(slice) = 0 THEN Min(tagAt, Len(value))
                  ELSE tagAt + 1 + Extent(r, Len(slice) - 1)
    IN  [g EXCEPT !.iters = @ + 1,
                  !.depth = Max(@, r.g.depth),
                  !.read = Max(@, looked),
                  !.overrun = @ \/ r.g.overrun \/ next > end,
                  !.reread = @ \/ r.g.reread \/ offset < g.read,
                  !.phantom = @ \/ r.g.phantom \/ Len(slice) = 0,
                  !.steps = Append(@, [at |-> offset, tagAt |-> tagAt, key |-> key,
                                       value |-> r.value, consumed |-> r.consumed,
                                       next |-> next])]

\* an exception raised in a pass leaves the loop and the call
Fail(g, r, tagAt) ==
    [Shift(r, tagAt) EXCEPT !.g = [g EXCEPT !.depth = Max(@, r.g.depth)]]

array_loop(value, offset, end, data, g) ==
    IF ~LoopCond(offset, end)
    THEN [Ok(ArrayReturn(offset, end), List(data, 0)) EXCEPT !.g = g]
    ELSE IF offset >= Len(value) /\ end - offset > MaxUnroll
    THEN \* every remaining pass gets (0, None) from the empty slice value[offset:],
         \* appends None and adds 1 to offset, until offset = field_array_end
         [Ok(ArrayReturn(end, end), List(data, end - offset))
            EXCEPT !.g = [g EXCEPT !.iters = @ + (end - offset), !.phantom = TRUE]]
    ELSE LET r == embedded_value(From(value, offset))
         IN  IF ~r.ok THEN Fail(g, r, offset)
             ELSE LET next == Advance(offset, r.consumed)
                  IN  array_loop(value, next, end, Append(data, r.value),
                                 Pass(g, value, offset, offset, <<>>, r, next, end))

field_array(value) ==
    IF Len(Slice(value, 0, 4)) # 4
    THEN [StructError EXCEPT !.g.compound = TRUE]
    ELSE LET length == U32(Slice(value, 0, 4))
             offset == 4
             field_array_end == offset + length
         IN  array_loop(value, offset, field_array_end, <<>>,
                        [NoGhost EXCEPT !.compound = TRUE, !.read = 4])

table_loop(value, offset, end, data, g) ==
    IF ~LoopCond(offset, end)
    THEN [Ok(TableReturn(offset, end), Dict(data)) EXCEPT !.g = g]
    ELSE IF offset >= Len(value)
    THEN \* struct.unpack_from('B', value, offset) with no byte left at offset
         [Shift(StructError, offset) EXCEPT !.g = g]
    ELSE LET key_length == value[offset + 1]
             keyAt == offset + 1
             key == Slice(value, keyAt, keyAt + key_length)
             tagAt == keyAt + key_length
             r == embedded_value(From(value, tagAt))
         IN  IF ~r.ok THEN Fail(g, r, tagAt)
             ELSE LET next == Advance(tagAt, r.consumed)
                  IN  table_loop(value, next, end, DictSet(data, key, r.value),
                                 Pass(g, value, offset, tagAt, key, r, next, end))

field_table(value) ==
    IF Len(Slice(value, 0, 4)) # 4
    THEN [StructError EXCEPT !.g.compound = TRUE]
    ELSE LET length == U32(Slice(value, 0, 4))
             offset == 4
             field_table_end == offset + length
         IN  table_loop(value, offset, field_table_end, <<>>,
                        [NoGhost EXCEPT !.compound = TRUE, !.read = 4])

\* a compound decoder entered from _embedded_value is one level deeper
Deeper(r) == [r EXCEPT !.g.depth = @ + 1]

UnknownTag(tag) == Raise("ValueError", <<"Unknown type", tag>>)

embedded_value(value) ==
    IF Len(value) = 0 THEN NullResult
    ELSE LET rest == From(value, 1)
         IN  CASE value[1] = TagA -> Shift(Deeper(field_array(rest)), 1)
               [] value[1] = TagD -> Shift(decimal(rest), 1)
               [] value[1] = Tag_f -> Shift(floating_point(rest), 1)
               [] value[1] = TagF -> Shift(Deeper(field_table(rest)), 1)
               [] value[1] = TagI -> Shift(long_int(rest), 1)
               [] value[1] = TagL -> Shift(long_long_int(rest), 1)
               [] value[1] = Tag_t -> Shift(boolean(rest), 1)
               [] value[1] = TagT -> Shift(timestamp(rest), 1)
               [] value[1] = Tag_s -> Shift(short_string(rest), 1)
               [] value[1] = TagS -> Shift(long_string(rest), 1)
               [] value[1] = TagU -> Shift(short_int(rest), 1)
               [] value[1] = TagNUL -> NullResult
               [] OTHER -> UnknownTag(value[1])

---------------------------------------------------------------------------
(* Static dispatch.                                                        *)

UnknownType(value) == Raise("ValueError", <<"Unknown type", value>>)

\* the dispatch with longlong sent to the 4-byte decoder
by_type_LongLongAsLong(value, data_type, offset) ==
    IF data_type = "bit" THEN bit(value, offset)
    ELSE IF data_type = "boolean" THEN boolean(value)
    ELSE IF data_type = "long" THEN long_int(value)
    ELSE IF data_type = "longlong" THEN long_int(value)
    ELSE IF data_type = "longstr" THEN long_string(value)
    ELSE IF data_type = "octet" THEN octet(value)
    ELSE IF data_type = "short" THEN short_int(value)
    ELSE IF data_type = "shortstr" THEN short_string(value)
    ELSE IF data_type = "table" THEN field_table(value)
    ELSE IF data_type = "timestamp" THEN timestamp(value)
    ELSE UnknownType(value)

by_type(value, data_type, offset) ==
    IF data_type = "bit" THEN bit(value, offset)
    ELSE IF data_type = "boolean" THEN boolean(value)
    ELSE IF data_type = "long" THEN long_int(value)
    ELSE IF data_type = "longlong" THEN long_long_int(value)
    ELSE IF data_type = "longstr" THEN long_string(value)
    ELSE IF data_type = "octet" THEN octet(value)
    ELSE IF data_type = "short" THEN short_int(value)
    ELSE IF data_type = "shortstr" THEN short_string(value)
    ELSE IF data_type = "table" THEN field_table(value)
    ELSE IF data_type = "timestamp" THEN timestamp(value)
    ELSE UnknownType(value)

\* the module-level dict; a decoder function is named by its name
METHODS == [bit |-> "bit",
            boolen |-> "boolean",
            long |-> "long_int",
            longlong |-> "long_long_int",
            longstr |-> "long_string",
            octet |-> "octet",
            short |-> "short_int",
            shortstr |-> "short_string",
            table |-> "field_table",
            timestamp |-> "timestamp"]

\* calling the function object f
Apply(f, value, position) ==
    CASE f = "bit" -> bit(value, position)
      [] f = "boolean" -> boolean(value)
      [] f = "long_int" -> long_int(value)
      [] f = "long_long_int" -> long_long_int(value)
      [] f = "long_string" -> long_string(value)
      [] f = "octet" -> octet(value)
      [] f = "short_int" -> short_int(value)
      [] f = "short_string" -> short_string(value)
      [] f = "field_table" -> field_table(value)
      [] f = "timestamp" -> timestamp(value)

\* METHODS[data_type](value) as a caller writes it; bit also takes its position
methods_call(value, data_type, position) ==
    IF data_type \notin DOMAIN METHODS THEN Raise("KeyError", <<data_type>>)
    ELSE Apply(METHODS[data_type], value, position)

---------------------------------------------------------------------------
(* The buffers and calls a caller makes.                                     *)

\* the bytes buffers are made of; all below 128, so that a 4-byte length
\* stays below 2^31
\* (88 is 'X', which is no type tag)
Bytes == {0, 1, TagA, TagF, Tag_s, Tag_t, 88}
InnerBytes == {0, 1, Tag_t, 88}
AllTags == {TagA, TagD, Tag_f, TagF, TagI, TagL, Tag_t, TagT, Tag_s, TagS, TagU, TagNUL}
AnyByte == 0..255
BitPositions == 0..7
TypeNames == {"bit", "boolean", "long", "longlong", "longstr", "octet", "short",
              "shortstr", "table", "timestamp"}
\* names by_type does not know, the key METHODS holds for boolean among them
OtherNames == {"boolen", "decimal", ""}

SeqsUpTo(S, n) == UNION {[1..k -> S] : k \in 0..n}
Fill(b, k) == [i \in 1..k |-> b]

\* struct.pack('>I', n)
Pack32(n) == <<n \div 16777216, (n \div 65536) % 256, (n \div 256) % 256, n % 256>>

RECURSIVE Concat(_)
Concat(ss) == IF Len(ss) = 0 THEN <<>> ELSE Head(ss) \o Concat(Tail(ss))

Flat == SeqsUpTo(Bytes, MaxLen)
Wide == {<<b>> \o Fill(f, k) : b \in Bytes \cup AllTags, f \in {0, 1}, k \in 0..MaxTail}
Tagged == {<<b>> \o Fill(f, k) : b \in AnyByte, f \in {0, 1}, k \in 0..MaxTail}

\* a declared length n in front of a body, n from 0 to one more than the body
Declared(body) == {Pack32(n) \o body : n \in 0..(Len(body) + 1)}
Regions == UNION {Declared(body) : body \in SeqsUpTo(Bytes, MaxBody)}

\* a compound value inside a region: after its tag (and, in a table, an empty
\* key), with the outer length one less, equal to or one more than what follows
Leads == {<<TagA>>, <<TagF>>, <<0, TagA>>, <<0, TagF>>}
Around(inner) == {Pack32(n) \o inner : n \in (Len(inner) - 1)..(Len(inner) + 1)}
Nested == UNION {Around(lead \o inner) :
                    lead \in Leads,
                    inner \in UNION {Declared(body) : body \in SeqsUpTo(InnerBytes, MaxInner)}}

\* what an encoder writes: whole values, and the length of what follows
\* (97 is 'a')
Elements == {<<TagNUL>>, <<Tag_t, 0>>, <<Tag_t, 1>>, <<Tag_s, 1, 97>>,
             <<TagA, 0, 0, 0, 0>>, <<TagF, 0, 0, 0, 0>>}
Keys == {<<0>>, <<1, 97>>}
Entries == {k \o e : k \in Keys, e \in Elements}
Encoded(parts) == {Pack32(Len(Concat(ps))) \o Concat(ps) : ps \in SeqsUpTo(parts, MaxEntries)}

\* text with a non-ASCII byte (200) in it, behind a 1-byte and a 4-byte length
TextBodies == SeqsUpTo({97, 200}, MaxText)
ShortTexts == {<<n>> \o body : body \in TextBodies, n \in 0..(MaxText + 1)}
LongTexts == UNION {Declared(body) : body \in TextBodies}

Tag(t, S) == {<<t>> \o s : s \in S}

InputsFor(fn) ==
    CASE fn = "short_string" -> Flat \cup Wide \cup ShortTexts
      [] fn = "long_string" -> Flat \cup Wide \cup LongTexts \cup Regions
      [] fn = "field_array" -> Flat \cup Regions \cup Nested \cup Encoded(Elements)
      [] fn = "field_table" -> Flat \cup Regions \cup Nested \cup Encoded(Entries)
      [] fn = "embedded_value" ->
            Flat \cup Tagged \cup Tag(Tag_s, ShortTexts) \cup Tag(TagS, LongTexts)
                 \cup Tag(TagA, Regions \cup Nested \cup Encoded(Elements))
                 \cup Tag(TagF, Regions \cup Nested \cup Encoded(Entries))
      [] fn = "by_type" -> Flat \cup Wide \cup Encoded(Entries)
      [] fn = "METHODS" -> Flat \cup Wide \cup Encoded(Entries)
      [] OTHER -> Flat \cup Wide

Decoders == {"bit", "boolean", "decimal", "floating_point", "long_int", "long_long_int",
             "long_string", "octet", "short_int", "short_string", "timestamp",
             "field_array", "field_table", "embedded_value"}

\* a call: the function, its buffer and, where it takes them, the type name
\* and the bit position (offset) arguments
Call(fn, value, data_type, position) ==
    [fn |-> fn, value |-> value, data_type |-> data_type, position |-> position]

Pending == [ok |-> FALSE, err |-> "pending"]

Init ==
    /\ result = Pending
    /\ \/ \E fn \in Decoders \ {"bit"} : \E v \in InputsFor(fn) :
             call = Call(fn, v, "", 0)
       \/ \E v \in InputsFor("bit") : \E p \in BitPositions :
             call = Call("bit", v, "", p)
       \/ \E fn \in {"by_type", "METHODS"} : \E v \in InputsFor(fn) :
             \/ \E t \in (TypeNames \cup OtherNames) \ {"bit"} : \E p \in {0, 7} :
                   call = Call(fn, v, t, p)
             \/ \E p \in BitPositions : call = Call(fn, v, "bit", p)

\* the pending call returns r (or raises it)
Returns(r) ==
    /\ result = Pending
    /\ result' = r
    /\ UNCHANGED call

Bit ==
    /\ call.fn = "bit"
    /\ Returns(bit(call.value, call.position))

Boolean ==
    /\ call.fn = "boolean"
    /\ Returns(boolean(call.value))

Decimal ==
    /\ call.fn = "decimal"
    /\ Returns(decimal(call.value))

FloatingPoint ==
    /\ call.fn = "floating_point"
    /\ Returns(floating_point(call.value))

LongInt ==
    /\ call.fn = "long_int"
    /\ Returns(long_int(call.value))

LongLongInt ==
    /\ call.fn = "long_long_int"
    /\ Returns(long_long_int(call.value))

LongString ==
    /\ call.fn = "long_string"
    /\ Returns(long_string(call.value))

Octet ==
    /\ call.fn = "octet"
    /\ Returns(octet(call.value))

ShortInt ==
    /\ call.fn = "short_int"
    /\ Returns(short_int(call.value))

ShortString ==
    /\ call.fn = "short_string"
    /\ Returns(short_string(call.value))

Timestamp ==
    /\ call.fn = "timestamp"
    /\ Returns(timestamp(call.value))

FieldArray ==
    /\ call.fn = "field_array"
    /\ Returns(field_array(call.value))

FieldTable ==
    /\ call.fn = "field_table"
    /\ Returns(field_table(call.value))

EmbeddedValue ==
    /\ call.fn = "embedded_value"
    /\ Returns(embedded_value(call.value))

ByType ==
    /\ call.fn = "by_type"
    /\ Returns(by_type(call.value, call.data_type, call.position))

MethodsCall ==
    /\ call.fn = "METHODS"
    /\ Returns(methods_call(call.value, call.data_type, call.position))

Next ==
    \/ Bit \/ Boolean \/ Decimal \/ FloatingPoint \/ LongInt \/ LongLongInt
    \/ LongString \/ Octet \/ ShortInt \/ ShortString \/ Timestamp
    \/ FieldArray \/ FieldTable \/ EmbeddedValue \/ ByType \/ MethodsCall

Spec == Init /\ [][Next]_vars

---------------------------------------------------------------------------
(* Properties.                                                              *)

\* the region length declared in the 4-byte prefix of the call's buffer
DeclaredLength == U32(Slice(call.value, 0, 4))
HasPrefix == Len(call.value) >= 4
Compound == {"field_array", "field_table"}
Primitives == Decoders \ (Compound \cup {"embedded_value"})

\* the bytes a primitive value occupies: its fixed width, or its length
\* prefix plus the length declared there
Needed(fn, value) ==
    CASE fn \in {"bit", "boolean", "octet"} -> 1
      [] fn = "short_int" -> 2
      [] fn \in {"floating_point", "long_int"} -> 4
      [] fn = "decimal" -> 5
      [] fn \in {"long_long_int", "timestamp"} -> 8
      [] fn = "short_string" -> IF Len(value) < 1 THEN 1 ELSE 1 + U8(value)
      [] fn = "long_string" -> IF Len(value) < 4 THEN 4 ELSE 4 + U32(Slice(value, 0, 4))

IsUnknownTag(r) == ~r.ok /\ r.err = "ValueError" /\ r.msg[1] = "Unknown type"

\* C1: whenever field_array returns a result, the consumed count is 4 + the
\* declared region length, as it is for field_table.
C1_ConsumedIsDeclared ==
    (call.fn \in Compound /\ result # Pending /\ result.ok)
        => result.consumed = 4 + DeclaredLength

\* C2: a compound decoder never returns a result in which an element
\* ends beyond 4 + declared length, and never decodes again bytes that a
\* nested compound decoder already consumed.
C2_NoOverrunNoReread ==
    (call.fn \in Compound /\ result # Pending /\ result.ok)
        => (~result.g.overrun /\ ~result.g.reread)

\* C3: a primitive decoder fails on a buffer shorter than the value's fixed
\* width, or than its length prefix plus declared length.
C3_ShortBufferFails ==
    (call.fn \in Primitives /\ result # Pending
        /\ Len(call.value) < Needed(call.fn, call.value))
        => ~result.ok

\* C4: a compound decoder fails on a buffer of fewer than 4 + declared
\* length bytes, and no returned element is made from an empty slice.
C4_NoPhantomElements ==
    (call.fn \in Compound /\ result # Pending /\ HasPrefix)
        => /\ Len(call.value) < 4 + DeclaredLength => ~result.ok
           /\ result.ok => ~result.g.phantom

\* C5: _embedded_value raises the unknown-tag error about its first byte
\* exactly when that byte is no type tag; the error of an unknown tag, at
\* whatever nesting depth, leaves the outermost call with no partial result
\* and reports the offending byte and the offset of the tag.
C5_UnknownTagReported ==
    (call.fn \in Compound \cup {"embedded_value"} /\ result # Pending)
        => /\ (call.fn = "embedded_value" /\ Len(call.value) > 0)
                => ((IsUnknownTag(result) /\ result.at = 0) <=> call.value[1] \notin AllTags)
           /\ IsUnknownTag(result)
                => /\ "value" \notin DOMAIN result
                   /\ result.msg[2] = call.value[result.at + 1]
                   /\ Len(result.msg) >= 3
                   /\ result.msg[3] = result.at

\* the decoder the claim names for each type name
C6_Routes == [bit |-> "bit", boolean |-> "boolean", long |-> "long_int",
              longlong |-> "long_long_int", longstr |-> "long_string",
              octet |-> "octet", short |-> "short_int", shortstr |-> "short_string",
              table |-> "field_table", timestamp |-> "timestamp"]

\* C6: by_type returns, for each of the ten type names, what the matching
\* decoder returns (the offset being the bit position for bit only), and
\* fails with the unknown-type error, decoding nothing, for any other name.
C6_ByTypeRoutes ==
    (call.fn = "by_type" /\ result # Pending)
        => IF call.data_type \in DOMAIN C6_Routes
           THEN /\ result = Apply(C6_Routes[call.data_type], call.value, call.position)
                /\ call.data_type # "bit"
                     => result = Apply(C6_Routes[call.data_type], call.value, 0)
           ELSE /\ ~result.ok
                /\ result.err = "ValueError"
                /\ result.msg[1] = "Unknown type"
                /\ result.g = NoGhost

C6_Witness ==
    /\ call.fn = "by_type" /\ result # Pending
    /\ call.data_type = "table"
    /\ result.ok
    /\ result.g.iters = 2

\* the last pass of a table's loop that read key k
LastPass(steps, k) ==
    CHOOSE i \in 1..Len(steps) :
        /\ steps[i].key = k
        /\ \A j \in (i + 1)..Len(steps) : steps[j].key # k

\* C7: the mapping field_table returns holds the keys its loop read, each
\* once, with the value decoded at the key's last occurrence in wire order.
C7_LastOccurrenceWins ==
    (call.fn = "field_table" /\ result # Pending /\ result.ok)
        => LET steps == result.g.steps
               map == result.value.map
           IN  /\ DOMAIN map = {steps[i].key : i \in 1..Len(steps)}
               /\ \A k \in DOMAIN map : map[k] = steps[LastPass(steps, k)].value

C7_Witness ==
    /\ call.fn = "field_table" /\ result # Pending /\ result.ok
    /\ ~result.g.overrun /\ ~result.g.phantom
    /\ \E i, j \in 1..Len(result.g.steps) :
          /\ i < j
          /\ result.g.steps[i].key = result.g.steps[j].key
          /\ result.g.steps[i].value # result.g.steps[j].value

\* a pass whose tagged value is the empty slice or begins with NUL
NullPass(value, step) == step.tagAt >= Len(value) \/ value[step.tagAt + 1] = TagNUL

\* C8: _embedded_value returns (0, None) for the empty buffer and for any
\* buffer beginning with NUL; in a compound decoder such an element moves
\* the offset by exactly 1.
C8_NullIsZeroBytes ==
    /\ (call.fn = "embedded_value" /\ result # Pending
            /\ (Len(call.value) = 0 \/ call.value[1] = TagNUL))
         => (result.ok /\ result.consumed = 0 /\ result.value = None)
    /\ (call.fn \in Compound /\ result # Pending)
         => \A i \in 1..Len(result.g.steps) :
               NullPass(call.value, result.g.steps[i])
                  => /\ result.g.steps[i].value = None
                     /\ result.g.steps[i].next = result.g.steps[i].tagAt + 1

C8_Witness ==
    /\ call.fn = "field_array" /\ result # Pending /\ result.ok
    /\ \E i \in 1..Len(result.g.steps) :
          /\ result.g.steps[i].tagAt + 1 < Len(call.value)
          /\ call.value[result.g.steps[i].tagAt + 1] = TagNUL
          /\ i < Len(result.g.steps)

\* C9: field_array and field_table end on every buffer; the offset grows in
\* every pass, so there are at most as many passes as the declared length,
\* and every compound decoder entered through _embedded_value has its tag
\* byte and its 4-byte prefix in the buffer, which bounds the depth.
C9_Terminates ==
    (call.fn \in Compound \cup {"embedded_value"} /\ result # Pending)
        => /\ \A i \in 1..Len(result.g.steps) :
                 result.g.steps[i].next > result.g.steps[i].at
           /\ (call.fn \in Compound /\ HasPrefix) => result.g.iters <= DeclaredLength
           /\ result.g.depth <= Len(call.value)
           /\ call.fn \in Compound => 5 * result.g.depth <= Len(call.value)

C9_Witness ==
    /\ call.fn \in Compound /\ result # Pending /\ result.ok
    /\ ~result.g.overrun /\ ~result.g.phantom
    /\ result.g.depth = 1
    /\ result.g.iters >= 2

\* C10: METHODS has an entry for exactly the ten type names by_type
\* accepts, and each entry is the decoder by_type dispatches to.
C10_MethodsAgreesWithByType ==
    (call.fn = "METHODS" /\ result # Pending)
        => IF call.data_type \in TypeNames
           THEN result = by_type(call.value, call.data_type, call.position)
           ELSE ~result.ok /\ result.err = "KeyError"

====
